---- MODULE Spec2Model ----
(***************************************************************************)
(* Model of src/mech/estimate_carbon.py: one invocation of the blue-carbon *)
(* estimation tool.  The state is the command line, the input file, the    *)
(* position of main() and what the run has produced (estimator calls,      *)
(* files opened, stdout, stderr, the output file, the exit status).        *)
(*                                                                         *)
(* Numbers are exact decimals m * 10^e with a normalised mantissa (no      *)
(* trailing zero), so that the formula chain of the estimator is computed  *)
(* exactly; binary rounding of Python floats is not modelled.  The other   *)
(* values Python's json module and float() can produce (NaN, Infinity,     *)
(* booleans, strings, null, arrays) are tagged values.                     *)
(***************************************************************************)
EXTENDS Integers, Sequences, FiniteSets, TLC

VARIABLES argv, file_kind, file_data, output_writable,
          pc, args, results, exc,
          estimator_calls, files_read, stdout, stderr, out_file, exit_code

vars == <<argv, file_kind, file_data, output_writable, pc, args, results, exc,
          estimator_calls, files_read, stdout, stderr, out_file, exit_code>>

(***************************************************************************)
(* Bounds of the input space.                                              *)
(***************************************************************************)
\* small integers -MaxSmall..MaxSmall are among the numbers tried
MaxSmall == 1
\* number of additional keys an input file may carry
MaxExtra == 1

(***************************************************************************)
(* Values.                                                                 *)
(***************************************************************************)
Val(k, m, e) == [k |-> k, m |-> m, e |-> e]

RECURSIVE Norm(_, _)
\* the decimal m * 10^e with trailing zeros of the mantissa removed
Norm(m, e) ==
    IF m = 0 THEN Val("num", 0, 0)
    ELSE IF m % 10 = 0 THEN Norm(m \div 10, e + 1)
    ELSE Val("num", m, e)

Num(m, e) == Norm(m, e)
NaN       == Val("nan", 0, 0)
Inf(s)    == Val("inf", s, 0)
Bool(b)   == Val("bool", IF b THEN 1 ELSE 0, 0)
Str       == Val("str", 0, 0)
Null      == Val("null", 0, 0)
Arr       == Val("arr", 0, 0)
\* Python's None: an option that was not given
None      == Val("none", 0, 0)
\* a command-line token float() rejects
BadToken  == Val("bad", 0, 0)

Sign(x) == IF x > 0 THEN 1 ELSE IF x < 0 THEN -1 ELSE 0

\* a bool used in arithmetic is the int 0 or 1
AsNumber(v) == IF v.k = "bool" THEN Val("num", v.m, 0) ELSE v

\* Python's * on int/float/bool operands
Mul(x, y) ==
    LET a == AsNumber(x)
        b == AsNumber(y)
    IN  IF a.k = "nan" \/ b.k = "nan" THEN NaN
        ELSE IF a.k = "inf" \/ b.k = "inf"
             THEN IF a.m = 0 \/ b.m = 0 THEN NaN
                  ELSE Inf(Sign(a.m) * Sign(b.m))
        ELSE Norm(a.m * b.m, a.e + b.e)

\* Python's x / 1000
Div1000(x) ==
    LET a == AsNumber(x)
    IN  IF a.k = "num" THEN Norm(a.m, a.e - 3) ELSE a

\* the operand kinds for which Python defines v <= 0
Comparable(v) == v.k \in {"num", "nan", "inf", "bool"}

\* v <= 0 for a comparable v (NaN compares false)
LeZero(v) == v.k \in {"num", "inf", "bool"} /\ v.m <= 0

\* v > 0 for a comparable v
GtZero(v) == v.k \in {"num", "inf", "bool"} /\ v.m > 0

\* bool(v) for the values argparse can store in an override
Truthy(v) ==
    CASE v.k = "none" -> FALSE
      [] v.k = "num"  -> v.m # 0
      [] OTHER        -> TRUE

carbon_content_ratio  == Num(47, -2)
co2_conversion_factor == Num(367, -2)
below_ground_factor   == Num(12, -1)

Methodology == "Simple canopy-based estimation with root factor"

\* dict.update: the entries of d replace or extend those of r
Update(r, d) ==
    [key \in DOMAIN r \cup DOMAIN d |-> IF key \in DOMAIN d THEN d[key] ELSE r[key]]

\* the estimator with the division by 1000 left out (co2 in kg, not tonnes)
estimate_without_tonnes(canopy_area_m2, avg_density_kg_m2) ==
    LET biomass_kg       == Mul(canopy_area_m2, avg_density_kg_m2)
        carbon_kg        == Mul(biomass_kg, carbon_content_ratio)
        co2_kg           == Mul(carbon_kg, co2_conversion_factor)
        total_co2_tonnes == Mul(co2_kg, below_ground_factor)
    IN  [canopy_area_m2              |-> canopy_area_m2,
         avg_density_kg_m2           |-> avg_density_kg_m2,
         above_ground_biomass_kg     |-> biomass_kg,
         carbon_kg                   |-> carbon_kg,
         co2_tonnes                  |-> co2_kg,
         total_co2_tonnes_with_roots |-> total_co2_tonnes,
         methodology                 |-> Methodology]

\* the estimator with the root factor left out of the total
estimate_without_roots(canopy_area_m2, avg_density_kg_m2) ==
    LET biomass_kg == Mul(canopy_area_m2, avg_density_kg_m2)
        carbon_kg  == Mul(biomass_kg, carbon_content_ratio)
        co2_kg     == Mul(carbon_kg, co2_conversion_factor)
        co2_tonnes == Div1000(co2_kg)
    IN  [canopy_area_m2              |-> canopy_area_m2,
         avg_density_kg_m2           |-> avg_density_kg_m2,
         above_ground_biomass_kg     |-> biomass_kg,
         carbon_kg                   |-> carbon_kg,
         co2_tonnes                  |-> co2_tonnes,
         total_co2_tonnes_with_roots |-> co2_tonnes,
         methodology                 |-> Methodology]

estimate_biomass_from_canopy(canopy_area_m2, avg_density_kg_m2) ==
    LET biomass_kg       == Mul(canopy_area_m2, avg_density_kg_m2)
        carbon_kg        == Mul(biomass_kg, carbon_content_ratio)
        co2_kg           == Mul(carbon_kg, co2_conversion_factor)
        co2_tonnes       == Div1000(co2_kg)
        total_co2_tonnes == Mul(co2_tonnes, below_ground_factor)
    IN  [canopy_area_m2              |-> canopy_area_m2,
         avg_density_kg_m2           |-> avg_density_kg_m2,
         above_ground_biomass_kg     |-> biomass_kg,
         carbon_kg                   |-> carbon_kg,
         co2_tonnes                  |-> co2_tonnes,
         total_co2_tonnes_with_roots |-> total_co2_tonnes,
         methodology                 |-> Methodology]

\* data.get(key, 0)
Get(data, key) == IF key \in DOMAIN data THEN data[key] ELSE Num(0, 0)

\* the exception `canopy_area <= 0 or density <= 0` ends with, or "none"
ValidationError(canopy_area, density) ==
    IF ~Comparable(canopy_area) THEN "TypeError"
    ELSE IF LeZero(canopy_area) THEN "ValueError"
    ELSE IF ~Comparable(density) THEN "TypeError"
    ELSE IF LeZero(density) THEN "ValueError"
    ELSE "none"

\* the metadata without the copy of the input
MetadataWithoutInput(data) ==
    [calculation_timestamp |-> "2024-01-15T10:30:00Z",
     version               |-> "1.0.0",
     notes                 |-> "Simplified calculation for demo purposes"]

Metadata(data) ==
    [input_data            |-> data,
     calculation_timestamp |-> "2024-01-15T10:30:00Z",
     version               |-> "1.0.0",
     notes                 |-> "Simplified calculation for demo purposes"]

\* the exception process_mrv_data raises on this file, or "none"
LoadError(kind, data) ==
    CASE kind = "unreadable" -> "FileNotFoundError"
      [] kind = "malformed"  -> "JSONDecodeError"
      [] kind = "nonobject"  -> "AttributeError"
      [] OTHER -> ValidationError(Get(data, "canopy_area_m2"),
                                  Get(data, "avg_biomass_density_kg_m2"))

NoResults == [none |-> TRUE]

(***************************************************************************)
(* The inputs tried.                                                       *)
(***************************************************************************)
SmallInts   == {Num(i, 0) : i \in (0 - MaxSmall)..MaxSmall}
CanopyNums  == {Num(5, 3), Num(1, 3), Num(25, -1)} \cup SmallInts
DensityNums == {Num(155, -1), Num(1, 1)} \cup SmallInts

\* what json.load can put under a key besides a finite number
JsonOther == {NaN, Inf(1), Bool(TRUE), Bool(FALSE), Str, Null, Arr}
\* what float() can return besides a finite number
FloatOther == {NaN, Inf(-1)}

ExtraKeyNames == <<"site_id", "version", "input_source", "notes">>
ExtraKeys == {ExtraKeyNames[i] : i \in 1..MaxExtra}

InputPath  == "in.json"
OutputPath == "out.json"

\* the objects an input file may hold
FileObjects ==
    { [key \in ks \cup xs |->
          IF key = "canopy_area_m2" THEN c
          ELSE IF key = "avg_biomass_density_kg_m2" THEN d
          ELSE Str] :
        <<ks, xs, c, d>> \in
          { t \in (SUBSET {"canopy_area_m2", "avg_biomass_density_kg_m2"})
                  \X (SUBSET ExtraKeys)
                  \X (CanopyNums \cup JsonOther)
                  \X (DensityNums \cup JsonOther) :
              \* a value is chosen only for a key that is present
              /\ ("canopy_area_m2" \notin t[1] => t[3] = Num(0, 0))
              /\ ("avg_biomass_density_kg_m2" \notin t[1] => t[4] = Num(0, 0)) } }

EmptyObject == [key \in {} |-> Str]

Init ==
    /\ argv \in [input       : {"absent", InputPath},
                 output      : {"absent", OutputPath},
                 canopy_area : {None, BadToken} \cup CanopyNums \cup FloatOther,
                 density     : {None, BadToken} \cup DensityNums \cup FloatOther]
    /\ file_kind \in {"unreadable", "malformed", "nonobject", "object"}
    /\ file_data \in (IF file_kind = "object" THEN FileObjects ELSE {EmptyObject})
    \* nothing of the file system matters to a run without the path
    /\ argv.input = "absent" => file_kind = "unreadable"
    /\ output_writable \in BOOLEAN
    /\ argv.output = "absent" => output_writable
    /\ pc = "parse_args"
    /\ args = argv
    /\ results = NoResults
    /\ exc = "none"
    /\ estimator_calls = <<>>
    /\ files_read = <<>>
    /\ stdout = <<>>
    /\ stderr = <<>>
    /\ out_file = NoResults
    /\ exit_code = -1

(***************************************************************************)
(* main()                                                                  *)
(***************************************************************************)
ArgparseError(a) ==
    \/ a.input = "absent"
    \/ a.canopy_area = BadToken
    \/ a.density = BadToken

\* parser.parse_args(): exits with status 2 on a usage error
ParseArgs ==
    /\ pc = "parse_args"
    /\ IF ArgparseError(argv)
       THEN /\ stderr' = <<"usage", "estimate_carbon.py: error">>
            /\ exit_code' = 2
            /\ pc' = "done"
       ELSE /\ pc' = "resolve"
            /\ UNCHANGED <<stderr, exit_code>>
    /\ UNCHANGED <<argv, file_kind, file_data, output_writable, args, results, exc,
                   estimator_calls, files_read, stdout, out_file>>

\* the branch condition as a presence check: an override of 0 counts as given
UseCliArgumentsIfPresent(a) == a.canopy_area # None /\ a.density # None

\* the branch condition of main
UseCliArguments(a) == Truthy(a.canopy_area) /\ Truthy(a.density)

\* if args.canopy_area and args.density: estimate directly
EstimateFromCli ==
    /\ pc = "resolve"
    /\ UseCliArguments(args)
    /\ results' = Update(estimate_biomass_from_canopy(args.canopy_area, args.density),
                         [input_source |-> "cli_arguments"])
    /\ estimator_calls' = Append(estimator_calls, <<args.canopy_area, args.density>>)
    /\ pc' = "output"
    /\ UNCHANGED <<argv, file_kind, file_data, output_writable, args, exc,
                   files_read, stdout, stderr, out_file, exit_code>>

\* else: results = process_mrv_data(args.input)
ProcessMrvData ==
    /\ pc = "resolve"
    /\ ~UseCliArguments(args)
    /\ files_read' = Append(files_read, args.input)
    /\ LET err          == LoadError(file_kind, file_data)
           canopy_area  == Get(file_data, "canopy_area_m2")
           density      == Get(file_data, "avg_biomass_density_kg_m2")
       IN  IF err # "none"
           THEN /\ exc' = err
                /\ pc' = "except"
                /\ UNCHANGED <<results, estimator_calls>>
           ELSE /\ results' = Update(estimate_biomass_from_canopy(canopy_area, density),
                                     Metadata(file_data))
                /\ estimator_calls' = Append(estimator_calls, <<canopy_area, density>>)
                /\ pc' = "output"
                /\ UNCHANGED exc
    /\ UNCHANGED <<argv, file_kind, file_data, output_writable, args,
                   stdout, stderr, out_file, exit_code>>

\* json.dumps, then the output file or stdout
WriteOutput ==
    /\ pc = "output"
    /\ IF args.output # "absent"
       THEN IF output_writable
            THEN /\ out_file' = results
                 /\ stdout' = Append(stdout, [line |-> "Results saved to", json |-> NoResults])
                 /\ exit_code' = 0
                 /\ pc' = "done"
                 /\ UNCHANGED exc
            ELSE /\ exc' = "OSError"
                 /\ pc' = "except"
                 /\ UNCHANGED <<out_file, stdout, exit_code>>
       ELSE /\ stdout' = Append(stdout, [line |-> "json", json |-> results])
            /\ exit_code' = 0
            /\ pc' = "done"
            /\ UNCHANGED <<out_file, exc>>
    /\ UNCHANGED <<argv, file_kind, file_data, output_writable, args, results,
                   estimator_calls, files_read, stderr>>

\* except Exception as e: print to stderr, sys.exit(1)
HandleException ==
    /\ pc = "except"
    /\ stderr' = Append(stderr, "Error: ")
    /\ exit_code' = 1
    /\ pc' = "done"
    /\ UNCHANGED <<argv, file_kind, file_data, output_writable, args, results, exc,
                   estimator_calls, files_read, stdout, out_file>>

Next ==
    \/ ParseArgs
    \/ EstimateFromCli
    \/ ProcessMrvData
    \/ WriteOutput
    \/ HandleException

Spec == Init /\ [][Next]_vars

(***************************************************************************)
(* Observations of a run.                                                  *)
(***************************************************************************)
HasResult == "none" \notin DOMAIN results
Finished  == pc = "done"
Succeeded == pc = "done" /\ exit_code = 0
\* the result has reached stdout or the output file
Emitted ==
    /\ HasResult
    /\ \/ out_file = results
       \/ \E i \in 1..Len(stdout) : stdout[i].json = results
FileCanopy  == Get(file_data, "canopy_area_m2")
FileDensity == Get(file_data, "avg_biomass_density_kg_m2")
PositiveNumber(v) == v.k = "num" /\ v.m > 0
FormulaFields == {"canopy_area_m2", "avg_density_kg_m2", "above_ground_biomass_kg",
                  "carbon_kg", "co2_tonnes", "total_co2_tonnes_with_roots",
                  "methodology"}
MetadataFields == {"input_data", "calculation_timestamp", "version", "notes"}

\* C1: for positive numbers a and d the result of the estimator echoes a and d
\* and has above_ground_biomass_kg = a*d, carbon_kg = a*d*0.47,
\* co2_tonnes = a*d*0.47*3.67/1000 and
\* total_co2_tonnes_with_roots = a*d*0.47*3.67/1000*1.2;
\* a = 5000, d = 15.5 gives 77500, 36425, 133.67975 and 160.4157.
C1_FormulaChain ==
    \A i \in 1..Len(estimator_calls) :
        LET a == estimator_calls[i][1]
            d == estimator_calls[i][2]
        IN  (PositiveNumber(a) /\ PositiveNumber(d)) =>
              /\ HasResult
              /\ results.canopy_area_m2 = a
              /\ results.avg_density_kg_m2 = d
              /\ results.above_ground_biomass_kg = Norm(a.m * d.m, a.e + d.e)
              /\ results.carbon_kg = Norm(a.m * d.m * 47, a.e + d.e - 2)
              /\ results.co2_tonnes = Norm(a.m * d.m * 47 * 367, a.e + d.e - 7)
              /\ results.total_co2_tonnes_with_roots
                   = Norm(a.m * d.m * 47 * 367 * 12, a.e + d.e - 8)
              /\ (a = Num(5, 3) /\ d = Num(155, -1)) =>
                   /\ results.above_ground_biomass_kg = Val("num", 775, 2)
                   /\ results.carbon_kg = Val("num", 36425, 0)
                   /\ results.co2_tonnes = Val("num", 13367975, -5)
                   /\ results.total_co2_tonnes_with_roots = Val("num", 1604157, -4)

\* C1 witness: a file with canopy 5000 and density 15.5 was loaded and the
\* result, with 160.4157 tonnes, was emitted.
C1_Witness ==
    /\ Succeeded /\ Emitted
    /\ estimator_calls = <<(<<Num(5, 3), Num(155, -1)>>)>>
    /\ files_read = <<InputPath>>
    /\ results.total_co2_tonnes_with_roots = Val("num", 1604157, -4)

\* the validation step rejected the load
ValidationRejected == exc \in {"ValueError", "TypeError"}
ZeroNegativeOrAbsent(key) ==
    \/ key \notin DOMAIN file_data
    \/ file_data[key].k = "num" /\ file_data[key].m <= 0

\* C2: a load from a file whose canopy_area_m2 or avg_biomass_density_kg_m2 is
\* zero, negative or absent fails at the validation and produces no result,
\* and the estimator is called only with two values that are > 0.
C2_FileValidation ==
    (file_kind = "object" /\ files_read # <<>>) =>
        /\ (ZeroNegativeOrAbsent("canopy_area_m2")
              \/ ZeroNegativeOrAbsent("avg_biomass_density_kg_m2"))
             => (ValidationRejected /\ ~HasResult /\ estimator_calls = <<>>)
        /\ \A i \in 1..Len(estimator_calls) :
             GtZero(estimator_calls[i][1]) /\ GtZero(estimator_calls[i][2])

\* C3: with both overrides supplied and non-zero, a run without an input path
\* succeeds: no file is read, the estimator is called with the two overrides
\* and the result carries input_source = "cli_arguments".
C3_OverridesNeedNoInput ==
    (Finished /\ argv.input = "absent"
       /\ argv.canopy_area # BadToken /\ argv.density # BadToken
       /\ Truthy(argv.canopy_area) /\ Truthy(argv.density)) =>
        /\ exit_code = 0
        /\ files_read = <<>>
        /\ estimator_calls = <<(<<argv.canopy_area, argv.density>>)>>
        /\ Emitted
        /\ "input_source" \in DOMAIN results
        /\ results.input_source = "cli_arguments"

\* C4: every run ends with exit status 0 on success and 1 otherwise; a failed
\* run has exactly one "Error: <message>" line on stderr and has written no
\* result to stdout or to the output file.
C4_ExitCodes ==
    Finished =>
        /\ exit_code \in {0, 1}
        /\ exit_code = 0 => (Emitted /\ stderr = <<>>)
        /\ exit_code # 0 =>
             /\ stderr = <<"Error: ">>
             /\ stdout = <<>>
             /\ out_file = NoResults

\* C5: in every run that emits a result, the canopy area and the density
\* passed to the estimator and echoed in the result are both > 0.
C5_PositiveInputs ==
    Emitted =>
        /\ GtZero(results.canopy_area_m2)
        /\ GtZero(results.avg_density_kg_m2)
        /\ \A i \in 1..Len(estimator_calls) :
             GtZero(estimator_calls[i][1]) /\ GtZero(estimator_calls[i][2])

\* the overrides of the second end-to-end example
Example2 == argv.canopy_area = Num(1, 3) /\ argv.density = Num(1, 1)

NonNumber(key) ==
    /\ key \in DOMAIN file_data
    /\ file_data[key].k \in {"str", "null", "bool", "arr"}

\* C7: a file whose canopy_area_m2 or avg_biomass_density_kg_m2 is a string,
\* null, a boolean or an array never yields a result: the validation rejects
\* the load.
C7_NonNumbersRejected ==
    (file_kind = "object" /\ files_read # <<>>
       /\ (NonNumber("canopy_area_m2") \/ NonNumber("avg_biomass_density_kg_m2"))) =>
        /\ ~HasResult
        /\ ValidationRejected
        /\ estimator_calls = <<>>

ZeroOrAbsent(v) == v = None \/ v = Num(0, 0)

C9_OptionalFields ==
    HasResult =>
        /\ Len(estimator_calls) = 1
        /\ LET r == estimate_biomass_from_canopy(estimator_calls[1][1],
                                                 estimator_calls[1][2])
           IN  /\ \A f \in FormulaFields : f \in DOMAIN results
               /\ results.canopy_area_m2 = estimator_calls[1][1]
               /\ results.avg_density_kg_m2 = estimator_calls[1][2]
               /\ results.above_ground_biomass_kg = r.above_ground_biomass_kg
               /\ results.carbon_kg = r.carbon_kg
               /\ results.co2_tonnes = r.co2_tonnes
               /\ results.total_co2_tonnes_with_roots = r.total_co2_tonnes_with_roots
               /\ results.methodology = Methodology
        /\ IF files_read # <<>>
           THEN /\ DOMAIN results = FormulaFields \cup MetadataFields
                /\ results.input_data = file_data
                /\ results.calculation_timestamp = "2024-01-15T10:30:00Z"
                /\ results.version = "1.0.0"
                /\ results.notes = "Simplified calculation for demo purposes"
           ELSE /\ DOMAIN results = FormulaFields \cup {"input_source"}
                /\ results.input_source = "cli_arguments"

\* C9 witness: a file with an additional key was loaded and its result emitted.
C9_Witness ==
    /\ Succeeded /\ Emitted
    /\ files_read = <<InputPath>>
    /\ ExtraKeyNames[1] \in DOMAIN file_data
    /\ results.input_data = file_data

\* C10: a --canopy-area (--density) given with a non-zero value next to an
\* input file overrides the file's value: an emitted result has that value as
\* canopy_area_m2 (avg_density_kg_m2), also when only one flag is given.
C10_FlagOverridesFile ==
    (Emitted /\ argv.input # "absent") =>
        /\ Truthy(argv.canopy_area) => results.canopy_area_m2 = argv.canopy_area
        /\ Truthy(argv.density) => results.avg_density_kg_m2 = argv.density

====
